---- MODULE Spec2Model ----
(***************************************************************************)
(* Model of duplicity/progress.py: the ProgressTracker (the estimator) and *)
(* LogProgressThread (the reporter).                                       *)
(*                                                                         *)
(* Representation choices:                                                 *)
(*  - Python floats are fixed-point numbers: the integer v stands for the  *)
(*    real v / SCALE; divisions and products round to the nearest unit.    *)
(*  - datetimes are whole seconds since an epoch, timedeltas are a signed  *)
(*    number of seconds; timedelta.seconds is the seconds field of the     *)
(*    normalised timedelta (the days are dropped), total_seconds() is the  *)
(*    whole duration.                                                      *)
(*  - None is the empty sequence, a present value v is <<v>>.              *)
(*  - an operation yields a record: the tracker after it, the reports it   *)
(*    handed to log.TransferProgress, the exception it raised ("none" when *)
(*    it returned) and the exit it took.                                   *)
(***************************************************************************)
EXTENDS Integers, Sequences, FiniteSets, TLC

VARIABLES tracker, globals, now, last_report, last_call, args_sorted, thread,
          frames

vars == <<tracker, globals, now, last_report, last_call, args_sorted, thread,
          frames>>

(***************************************************************************)
(* Bounds of the model.                                                    *)
(***************************************************************************)
SCALE == 1000
MaxTotal == 2
MaxSteps == 2
MaxDays == 1

(***************************************************************************)
(* Program constants.                                                      *)
(***************************************************************************)
Day == 86400
StallSeconds == 5
QueueLen == 30

None == << >>
Some(v) == <<v>>
Val(o) == o[1]

Max(a, b) == IF a >= b THEN a ELSE b
Min(a, b) == IF a <= b THEN a ELSE b
Abs(a) == IF a < 0 THEN -a ELSE a

(***************************************************************************)
(* Float arithmetic (fixed point, round to nearest).                       *)
(***************************************************************************)
RDiv(n, d) == (2 * n + d) \div (2 * d)
\* int / float(int), lines 145 and 152
FRatio(a, b) == RDiv(a * SCALE, b)
\* float * float
FMul(a, b) == RDiv(a * b, SCALE)
\* float / float
FDiv(a, b) == RDiv(a * SCALE, b)

RECURSIVE ISqrt(_, _, _)
\* the integer square root of n, by bisection: lo * lo <= n < hi * hi
ISqrt(n, lo, hi) ==
    IF hi - lo <= 1 THEN lo
    ELSE LET mid == (lo + hi) \div 2
         IN IF mid * mid <= n THEN ISqrt(n, mid, hi) ELSE ISqrt(n, lo, mid)
\* math.sqrt of a non-negative float
FSqrt(x) == ISqrt(x * SCALE, 0, Min(x * SCALE, 46340) + 1)

\* timedelta.seconds: the seconds field, 0 <= seconds < 86400
seconds(delta) == delta % Day
\* timedelta.total_seconds()
total_seconds(delta) == delta

(***************************************************************************)
(* ProgressTracker.__init__                                                *)
(***************************************************************************)
NewTracker ==
    [ total_stats |-> None,
      nsteps |-> 0,
      start_time |-> None,
      change_mean_ratio |-> 0,
      change_r_estimation |-> 0,
      compress_mean_ratio |-> 0,
      compress_r_estimation |-> 0,
      progress_estimation |-> 0,
      time_estimation |-> 0,
      total_bytecount |-> 0,
      last_total_bytecount |-> 0,
      last_bytecount |-> 0,
      stall_last_time |-> None,
      last_time |-> None,
      elapsed_sum |-> 0,
      speed |-> 0,
      transfers |-> << >> ]

\* the instance attributes __init__ creates; self.elapsed is not one of them
HasElapsedAttribute == FALSE

has_collected_evidence(self) == self.total_stats # None

\* log.TransferProgress(percent, eta, total bytes, elapsed seconds, speed, stalled)
TransferProgress(percent, eta, bytes, elapsed, speed, stalled) ==
    [ percent |-> percent, eta |-> eta, total_bytes |-> bytes,
      elapsed |-> elapsed, speed |-> speed, stalled |-> stalled ]

\* what a call leaves behind: the tracker, the reports emitted, the exception
\* raised ("none": the call returned), the exit taken, and raw, the value lines
\* 159-160 computed (None when the call did not get there)
Ret(self, out, exc, path, raw) ==
    [ self |-> self, out |-> out, exc |-> exc, path |-> path, raw |-> raw ]

(***************************************************************************)
(* ProgressTracker.log_upload_progress                                     *)
(***************************************************************************)
\* the gate with "and" for "or"
gated_and(g, self) == ~g.progress /\ ~has_collected_evidence(self)

\* line 102: the tick does nothing
gated(g, self) == ~g.progress \/ ~has_collected_evidence(self)

\* line 117: (current_time - self.stall_last_time).seconds > max(5, 2 * rate)
stall_detected(current_time, stall_last_time, rate) ==
    seconds(current_time - stall_last_time) > Max(StallSeconds, 2 * rate)

\* lines 145-149 and 152-156: one step of the running mean and of the sum of
\* squared deviations, and the sigma derived from it
running(mean, r_estimation, ratio, nsteps) ==
    LET delta == ratio - mean
        mean1 == mean + RDiv(delta, nsteps)
        r1 == r_estimation + FMul(delta, ratio - mean1)
    IN [ mean |-> mean1, r |-> r1, sigma |-> FSqrt(Abs(RDiv(r1, nsteps))) ]

\* lines 159-160
combine(change, compress, changes, total_changes) ==
    RDiv((FMul(change.mean, compress.mean) + change.sigma + compress.sigma) * changes,
         total_changes)

\* the clamp without its upper bound
clamp01_lower_only(x) == Max(0, x)

\* line 161
clamp01(x) == Max(0, Min(x, SCALE))

\* lines 168-170
projection(progress) ==
    IF progress > 0 THEN FDiv(SCALE - progress, progress) ELSE SCALE

\* line 172: long(projection * float(total_seconds))
eta(proj, secs) == (proj \div SCALE) * secs + ((proj % SCALE) * secs) \div SCALE

\* the new estimate applied whether or not it is monotonic
monotonic_dropped(estimation, last_progress_estimation) == estimation

\* lines 175-176
monotonic(estimation, last_progress_estimation) ==
    IF estimation < last_progress_estimation THEN last_progress_estimation
    ELSE estimation

RECURSIVE ema(_, _)
\* lines 186-188: the fold over the queue, oldest sample first
ema(transfers, speed) ==
    IF transfers = << >> THEN speed
    ELSE ema(Tail(transfers), RDiv(3 * Head(transfers) + 7 * speed, 10))

\* lines 181-196, reached only if self.elapsed exists
throughput(self, elapsed, current_time, raw) ==
    LET t1 == IF total_seconds(elapsed) > 0
              THEN Append(self.transfers,
                          FRatio(self.total_bytecount - self.last_total_bytecount,
                                 total_seconds(elapsed)))
              ELSE self.transfers
        t2 == IF Len(t1) > QueueLen THEN Tail(t1) ELSE t1
        s == [self EXCEPT !.transfers = t2,
                          !.last_total_bytecount = self.total_bytecount,
                          !.speed = ema(t2, 0)]
    IN Ret(s,
           <<TransferProgress(100 * s.progress_estimation, s.time_estimation,
                              s.total_bytecount,
                              seconds(current_time - Val(s.start_time)),
                              s.speed, FALSE)>>,
           "none", "completed", raw)

\* lines 141-176, then line 181
recompute(self, stats, elapsed, current_time) ==
    LET changes == stats.NewFileSize + stats.ChangedFileSize
        total_changes == Val(self.total_stats).NewFileSize
                         + Val(self.total_stats).ChangedFileSize
        last_progress_estimation == self.progress_estimation
        change == running(self.change_mean_ratio, self.change_r_estimation,
                          FRatio(stats.RawDeltaSize, changes), self.nsteps)
        s1 == [self EXCEPT !.change_mean_ratio = change.mean,
                           !.change_r_estimation = change.r]
        compress == running(self.compress_mean_ratio, self.compress_r_estimation,
                            FRatio(self.total_bytecount, stats.RawDeltaSize),
                            self.nsteps)
        raw == combine(change, compress, changes, total_changes)
        est == clamp01(raw)
        elapsed_sum == self.elapsed_sum + elapsed
        s2 == [s1 EXCEPT !.compress_mean_ratio = compress.mean,
                         !.compress_r_estimation = compress.r,
                         !.elapsed_sum = elapsed_sum,
                         !.time_estimation =
                             IF total_seconds(elapsed_sum) > 0
                             THEN eta(projection(est), total_seconds(elapsed_sum))
                             ELSE @,
                         !.progress_estimation =
                             monotonic(est, last_progress_estimation)]
    IN IF stats.RawDeltaSize = 0
       THEN Ret(s1, << >>, "ZeroDivisionError", "line152", None)
       ELSE IF ~HasElapsedAttribute
       THEN Ret(s2, << >>, "AttributeError", "line181", Some(raw))
       ELSE throughput(s2, elapsed, current_time, Some(raw))

\* lines 105-107 and 112: the clock is read; start_time, last_time
read_clock(self, current_time) ==
    [self EXCEPT !.start_time = IF @ = None THEN Some(current_time) ELSE @,
                 !.last_time = Some(current_time)]

\* lines 108-111: elapsed, from the last_time the call found
elapsed_since(self, current_time) ==
    IF self.last_time # None THEN current_time - Val(self.last_time) ELSE 0

\* lines 115-116
init_stall_time(self, current_time) ==
    [self EXCEPT !.stall_last_time = IF @ = None THEN Some(current_time) ELSE @]

\* lines 117-196, with the current_time and the elapsed of lines 105-111
check_stall_and_estimate(self, g, stats, elapsed, current_time) ==
    LET s2 == [self EXCEPT !.nsteps = @ + 1]
    IN IF stall_detected(current_time, Val(self.stall_last_time), g.progress_rate)
       THEN Ret(self,
                <<TransferProgress(100 * self.progress_estimation, self.time_estimation,
                                   self.total_bytecount,
                                   seconds(current_time - Val(self.start_time)),
                                   self.speed, TRUE)>>,
                "none", "stalled", None)
       ELSE IF s2.total_stats = None
       THEN Ret(s2, << >>, "AttributeError", "line137", None)
       ELSE IF stats.NewFileSize + stats.ChangedFileSize = 0
               \/ Val(s2.total_stats).NewFileSize
                  + Val(s2.total_stats).ChangedFileSize = 0
       THEN Ret(s2, << >>, "none", "zero_changes", None)
       ELSE recompute(s2, stats, elapsed, current_time)

log_upload_progress(self, g, stats, current_time) ==
    IF gated(g, self) THEN Ret(self, << >>, "none", "gated", None)
    ELSE check_stall_and_estimate(
             init_stall_time(read_clock(self, current_time), current_time),
             g, stats, elapsed_since(self, current_time), current_time)

(***************************************************************************)
(* ProgressTracker.annotate_written_bytes, set_evidence,                   *)
(* total_elapsed_seconds                                                   *)
(***************************************************************************)
\* the difference without max(..., 0)
changing_signed(bytecount, last_bytecount) == bytecount - last_bytecount

\* line 206
changing(bytecount, last_bytecount) == Max(bytecount - last_bytecount, 0)

\* "=" for "+="
add_bytes_assigned(total_bytecount, delta) == delta

\* line 207
add_bytes(total_bytecount, delta) == total_bytecount + delta

\* the sum of line 207 never stored
count_bytes_lost(self, bytecount) == [self EXCEPT !.last_bytecount = bytecount]

\* lines 207-208, with the changing of line 206
count_bytes(self, bytecount) ==
    [self EXCEPT !.total_bytecount =
                     add_bytes(@, changing(bytecount, self.last_bytecount)),
                 !.last_bytecount = bytecount]

\* lines 209-210, with the changing of line 206
touch_stall_time(self, c, current_time) ==
    [self EXCEPT !.stall_last_time = IF c > 0 THEN Some(current_time) ELSE @]

annotate_written_bytes(self, bytecount, current_time) ==
    touch_stall_time(count_bytes(self, bytecount),
                     changing(bytecount, self.last_bytecount), current_time)

\* the evidence kept once it is there
set_evidence_once(self, stats) ==
    IF self.total_stats = None THEN [self EXCEPT !.total_stats = Some(stats)]
    ELSE self

\* line 217
set_evidence(self, stats) == [self EXCEPT !.total_stats = Some(stats)]

\* (datetime.now() - self.start_time).seconds; with start_time None the
\* subtraction raises TypeError
total_elapsed_seconds(self, current_time) ==
    IF self.start_time = None
    THEN [exc |-> "TypeError", value |-> 0]
    ELSE [exc |-> "none", value |-> seconds(current_time - Val(self.start_time))]

(***************************************************************************)
(* The inputs.                                                             *)
(***************************************************************************)
\* lines 136-137: NewFileSize + ChangedFileSize
Changes(stats) == stats.NewFileSize + stats.ChangedFileSize

Sizes == {0, 1}
\* diffdir.stats as a tick reads it
LiveStats ==
    { s \in [NewFileSize : Sizes, ChangedFileSize : Sizes, RawDeltaSize : {0, 1, 2}] :
        s.NewFileSize >= s.ChangedFileSize }
\* the statistics of the first, dry-run pass
Evidence == { s \in [NewFileSize : Sizes, ChangedFileSize : Sizes] :
                s.NewFileSize = s.ChangedFileSize }
\* the same when the threads run line by line
SmallStats == { s \in LiveStats : s.RawDeltaSize <= 1 }
ByteCounts == {0, 1, 2}
\* globals.progress_rate
Rates == {1, 3}
\* how far the clock has moved when an operation reads it: not at all, just
\* past the stall threshold, a day and two seconds
TimeSteps == {0, StallSeconds + 1, Day + 2}
\* the same when the threads run line by line: not at all, just past the
\* stall threshold
Pauses == {0, StallSeconds + 1}
\* the clock readings the model covers: few days, and no later in the day than
\* the longest of the steps
ClockOk(t) == t \div Day <= MaxDays /\ t % Day <= StallSeconds + 1

\* the last operation: its name, its argument (annotate_written_bytes), the
\* diffdir.stats it read (a tick that got to line 136), the exit it took, the
\* exception it raised, the estimate of lines 159-160 and the number of reports it
\* handed to log.TransferProgress
NoCall ==
    [name |-> "init", arg |-> None, stats |-> None, path |-> "", exc |-> "none",
     raw |-> None, emitted |-> 0]
Call(name, r, stats) ==
    [name |-> name, arg |-> None,
     stats |-> IF r.path \in {"gated", "stalled", "line137"} THEN None ELSE Some(stats),
     path |-> r.path, exc |-> r.exc, raw |-> r.raw, emitted |-> Len(r.out)]
Returned(name, arg) ==
    [name |-> name, arg |-> arg, stats |-> None, path |-> "", exc |-> "none",
     raw |-> None, emitted |-> 0]

\* the logging sink keeps the last report it was handed
Emit(out, previous) == IF out = << >> THEN previous ELSE Some(out[Len(out)])

\* progress_thread: None, or a LogProgressThread at a line of run() ("250",
\* "251", "252", "253", "254"), returned ("done") or ended by an exception
\* ("dead"); running: the loop of lines 251-253 was entered; stopped: the
\* flag was set after the loop was entered
NoThread == [pc |-> "none", finished |-> FALSE, running |-> FALSE, stopped |-> FALSE]

\* the calls in progress when the two threads run line by line: tick, the
\* call of log_upload_progress (the line it is at, its current_time and its
\* elapsed); annotate, the call of annotate_written_bytes (the line it is at,
\* its argument and its changing); and the record of what the calls did:
\* added, the sum of the changing of every call of annotate_written_bytes;
\* samples, the number, the sum, the least and the greatest of the change_ratio
\* of the ticks that ran lines 145-147
NoFrames ==
    [tick |-> [pc |-> "idle", current_time |-> 0, elapsed |-> 0],
     annotate |-> [pc |-> "idle", bytecount |-> 0, changing |-> 0],
     added |-> 0,
     samples |-> [count |-> 0, sum |-> 0, least |-> 0, greatest |-> 0]]

Init ==
    /\ tracker = NewTracker
    /\ globals \in [progress : BOOLEAN, progress_rate : {1}, dry_run : {FALSE}]
    /\ now = 0
    /\ last_report = None
    /\ last_call = NoCall
    /\ args_sorted = TRUE
    /\ thread = NoThread
    /\ frames = NoFrames

\* tracker.set_evidence(stats)
SetEvidence ==
    \E stats \in Evidence :
        /\ tracker' = set_evidence(tracker, stats)
        /\ last_call' = Returned("set_evidence", Some(stats))
        /\ UNCHANGED <<globals, now, last_report, args_sorted, thread, frames>>

\* tracker.annotate_written_bytes(bytecount), the clock at now + d
AnnotateWrittenBytes ==
    \E bytecount \in ByteCounts, d \in TimeSteps :
        /\ ClockOk(now + d)
        /\ annotate_written_bytes(tracker, bytecount, now + d).total_bytecount <= MaxTotal
        /\ now' = now + d
        /\ tracker' = annotate_written_bytes(tracker, bytecount, now')
        /\ args_sorted' = (args_sorted /\ bytecount >= tracker.last_bytecount)
        /\ last_call' = Returned("annotate_written_bytes", Some(bytecount))
        /\ UNCHANGED <<globals, last_report, thread, frames>>

\* tracker.log_upload_progress(), the clock at now + d and diffdir.stats
\* holding stats as it runs
LogUploadProgress ==
    \E stats \in LiveStats, d \in TimeSteps :
        LET r == log_upload_progress(tracker, globals, stats, now + d)
        IN /\ ClockOk(now + d)
           /\ tracker.nsteps < MaxSteps
           /\ now' = now + d
           /\ tracker' = r.self
           /\ last_report' = Emit(r.out, last_report)
           /\ last_call' = Call("log_upload_progress", r, stats)
           /\ UNCHANGED <<globals, args_sorted, thread, frames>>

Next ==
    \/ SetEvidence
    \/ AnnotateWrittenBytes
    \/ LogUploadProgress

Spec == Init /\ [][Next]_vars

(***************************************************************************)
(* The program with its threads: the main thread sets the evidence, starts *)
(* the LogProgressThread and raises its finished flag; the transfer calls  *)
(* report_transfer; the LogProgressThread runs run().                      *)
(***************************************************************************)
InitReporter ==
    /\ tracker = NewTracker
    /\ globals \in [progress : BOOLEAN, progress_rate : Rates, dry_run : BOOLEAN]
    /\ now = 0
    /\ last_report = None
    /\ last_call = NoCall
    /\ args_sorted = TRUE
    /\ thread = NoThread
    /\ frames = NoFrames

\* progress_thread = LogProgressThread(); progress_thread.start()
StartThread ==
    /\ thread.pc = "none"
    /\ thread' = [thread EXCEPT !.pc = "250"]
    /\ last_call' = Returned("start", None)
    /\ UNCHANGED <<tracker, globals, now, last_report, args_sorted, frames>>

\* progress_thread.finished = True
Stop ==
    /\ thread.pc # "none"
    /\ ~thread.finished
    /\ thread' = [thread EXCEPT !.finished = TRUE, !.stopped = thread.running]
    /\ last_call' = Returned("stop", None)
    /\ UNCHANGED <<tracker, globals, now, last_report, args_sorted, frames>>

\* report_transfer(bytecount, totalbytes), lines 226-235
ReportTransfer ==
    \E bytecount \in ByteCounts, d \in TimeSteps :
        /\ ClockOk(now + d)
        /\ annotate_written_bytes(tracker, bytecount, now + d).total_bytecount <= MaxTotal
        /\ now' = now + d
        /\ tracker' = IF thread.pc # "none"
                      THEN annotate_written_bytes(tracker, bytecount, now')
                      ELSE tracker
        /\ args_sorted' = IF thread.pc # "none"
                          THEN args_sorted /\ bytecount >= tracker.last_bytecount
                          ELSE args_sorted
        /\ last_call' = Returned("report_transfer", Some(bytecount))
        /\ UNCHANGED <<globals, last_report, thread, frames>>

\* the condition without its test of the evidence
start_gate_no_evidence(g, self) == ~g.dry_run /\ g.progress

\* the condition of line 250
start_gate(g, self) == ~g.dry_run /\ g.progress /\ has_collected_evidence(self)

\* line 250
Run250 ==
    /\ thread.pc = "250"
    /\ thread' = IF start_gate(globals, tracker)
                 THEN [thread EXCEPT !.pc = "251", !.running = TRUE]
                 ELSE [thread EXCEPT !.pc = "done"]
    /\ last_call' = Returned("run", None)
    /\ UNCHANGED <<tracker, globals, now, last_report, args_sorted, frames>>

\* the loop that never reads the flag
not_finished_unread(self) == TRUE

\* the condition of line 251
not_finished(self) == ~self.finished

\* line 251
Run251 ==
    /\ thread.pc = "251"
    /\ thread' = [thread EXCEPT !.pc = IF not_finished(thread) THEN "252" ELSE "254"]
    /\ last_call' = Returned("run", None)
    /\ UNCHANGED <<tracker, globals, now, last_report, args_sorted, frames>>

\* line 252: tracker.log_upload_progress(); an exception ends the thread
Run252 ==
    \E stats \in LiveStats :
        LET r == log_upload_progress(tracker, globals, stats, now)
        IN /\ thread.pc = "252"
           /\ tracker.nsteps < MaxSteps
           /\ tracker' = r.self
           /\ last_report' = Emit(r.out, last_report)
           /\ last_call' = Call("log_upload_progress", r, stats)
           /\ thread' = [thread EXCEPT !.pc = IF r.exc = "none" THEN "253" ELSE "dead"]
           /\ UNCHANGED <<globals, now, args_sorted, frames>>

\* line 253: time.sleep(globals.progress_rate)
Run253 ==
    \E d \in TimeSteps :
        /\ thread.pc = "253"
        /\ d >= globals.progress_rate
        /\ ClockOk(now + d)
        /\ now' = now + d
        /\ thread' = [thread EXCEPT !.pc = "251"]
        /\ last_call' = Returned("run", None)
        /\ UNCHANGED <<tracker, globals, last_report, args_sorted, frames>>

\* line 254: the final report
Run254 ==
    LET e == total_elapsed_seconds(tracker, now)
    IN /\ thread.pc = "254"
       /\ last_report' =
             IF e.exc = "none"
             THEN Some(TransferProgress(100 * SCALE, 0, tracker.total_bytecount,
                                        e.value, tracker.speed, FALSE))
             ELSE last_report
       /\ thread' = [thread EXCEPT !.pc = IF e.exc = "none" THEN "done" ELSE "dead"]
       /\ last_call' = [Returned("run", None) EXCEPT
                          !.exc = e.exc, !.path = "line254",
                          !.emitted = IF e.exc = "none" THEN 1 ELSE 0]
       /\ UNCHANGED <<tracker, globals, now, args_sorted, frames>>

NextReporter ==
    \/ SetEvidence
    \/ StartThread
    \/ Stop
    \/ ReportTransfer
    \/ Run250
    \/ Run251
    \/ Run252
    \/ Run253
    \/ Run254

SpecReporter == InitReporter /\ [][NextReporter]_vars

(***************************************************************************)
(* The tracker shared by two threads that run line by line: the reporter   *)
(* inside log_upload_progress, the transfer inside annotate_written_bytes. *)
(* A call is cut where it reads what the other call writes: the tick       *)
(* before line 115 and before line 117, annotate_written_bytes before line *)
(* 209.                                                                    *)
(***************************************************************************)
\* lines 102-112: the gate, the clock read at now + d
Tick102 ==
    \E d \in Pauses :
        /\ frames.tick.pc = "idle"
        /\ tracker.nsteps < MaxSteps
        /\ ClockOk(now + d)
        /\ now' = now + d
        /\ IF gated(globals, tracker)
           THEN /\ last_call' = Call("log_upload_progress",
                                     Ret(tracker, << >>, "none", "gated", None), None)
                /\ UNCHANGED <<tracker, frames>>
           ELSE /\ tracker' = read_clock(tracker, now')
                /\ frames' = [frames EXCEPT !.tick =
                                 [pc |-> "115", current_time |-> now',
                                  elapsed |-> elapsed_since(tracker, now')]]
                /\ UNCHANGED last_call
        /\ UNCHANGED <<globals, last_report, args_sorted, thread>>

\* lines 115-116
Tick115 ==
    /\ frames.tick.pc = "115"
    /\ tracker' = init_stall_time(tracker, frames.tick.current_time)
    /\ frames' = [frames EXCEPT !.tick.pc = "117"]
    /\ UNCHANGED <<globals, now, last_report, last_call, args_sorted, thread>>

\* lines 117-196, diffdir.stats holding stats
Tick117 ==
    \E stats \in SmallStats :
        LET r == check_stall_and_estimate(tracker, globals, stats,
                                          frames.tick.elapsed, frames.tick.current_time)
            updated == r.path \in {"line152", "line181", "completed"}
            change_ratio == FRatio(stats.RawDeltaSize, Changes(stats))
        IN /\ frames.tick.pc = "117"
           /\ tracker' = r.self
           /\ last_report' = Emit(r.out, last_report)
           /\ last_call' = Call("log_upload_progress", r, stats)
           /\ frames' = [frames EXCEPT
                           !.tick = NoFrames.tick,
                           !.samples = IF updated
                                       THEN [count |-> @.count + 1,
                                             sum |-> @.sum + change_ratio,
                                             least |-> IF @.count = 0 THEN change_ratio
                                                       ELSE Min(@.least, change_ratio),
                                             greatest |-> Max(@.greatest, change_ratio)]
                                       ELSE @]
           /\ UNCHANGED <<globals, now, args_sorted, thread>>

\* lines 206-208
Annotate206 ==
    \E bytecount \in ByteCounts :
        /\ frames.annotate.pc = "idle"
        /\ count_bytes(tracker, bytecount).total_bytecount <= MaxTotal
        /\ tracker' = count_bytes(tracker, bytecount)
        /\ frames' = [frames EXCEPT
                        !.annotate = [pc |-> "209", bytecount |-> bytecount,
                                      changing |-> changing(bytecount,
                                                            tracker.last_bytecount)],
                        !.added = @ + changing(bytecount, tracker.last_bytecount)]
        /\ args_sorted' = (args_sorted /\ bytecount >= tracker.last_bytecount)
        /\ UNCHANGED <<globals, now, last_report, last_call, thread>>

\* lines 209-210: the clock, read at now + d when changing > 0
Annotate209 ==
    \E d \in Pauses :
        /\ frames.annotate.pc = "209"
        /\ frames.annotate.changing = 0 => d = 0
        /\ ClockOk(now + d)
        /\ now' = now + d
        /\ tracker' = touch_stall_time(tracker, frames.annotate.changing, now')
        /\ frames' = [frames EXCEPT !.annotate = NoFrames.annotate]
        /\ last_call' = Returned("annotate_written_bytes",
                                 Some(frames.annotate.bytecount))
        /\ UNCHANGED <<globals, last_report, args_sorted, thread>>

NextInterleaved ==
    \/ SetEvidence
    \/ Tick102
    \/ Tick115
    \/ Tick117
    \/ Annotate206
    \/ Annotate209

SpecInterleaved == Init /\ [][NextInterleaved]_vars

(***************************************************************************)
(* The claims.                                                             *)
(***************************************************************************)
\* the step is a call of log_upload_progress
IsTick == last_call'.name = "log_upload_progress"
\* the step is a call of annotate_written_bytes
IsAnnotate == last_call'.name = "annotate_written_bytes"
\* the tracker but for its three timestamps
Untimed(self) ==
    [self EXCEPT !.start_time = None, !.last_time = None, !.stall_last_time = None]
\* the statistics a stalled tick must leave alone
Statistics(self) ==
    <<self.nsteps, self.change_mean_ratio, self.change_r_estimation,
      self.compress_mean_ratio, self.compress_r_estimation,
      self.progress_estimation, self.time_estimation, self.elapsed_sum,
      self.speed, self.transfers>>

\* C1: progress_estimation never decreases, whatever the operation and its
\* inputs, and the percentage of a report is never below that of the report
\* before it.
C1_ProgressNeverDecreases ==
    [][ /\ tracker'.progress_estimation >= tracker.progress_estimation
        /\ (last_report # None /\ last_report' # None)
              => Val(last_report').percent >= Val(last_report).percent ]_vars

\* a tick whose estimate of line 161 fell below the progress already shown
C1_Witness ==
    /\ last_call.name = "log_upload_progress"
    /\ last_call.raw # None
    /\ clamp01(Val(last_call.raw)) < tracker.progress_estimation

\* C2: a tick with reporting enabled, evidence set, no stall, and the current
\* and the evidence totals non-zero returns and emits exactly one report, not
\* stalled, carrying 100 * progress_estimation, time_estimation,
\* total_bytecount, the seconds since start_time and speed.
C2_EveryTickReports ==
    [][ ( /\ IsTick
          /\ globals.progress
          /\ tracker.total_stats # None
          /\ last_call'.path # "stalled"
          /\ last_call'.stats # None
          /\ Changes(Val(last_call'.stats)) # 0
          /\ Changes(Val(tracker.total_stats)) # 0 )
        => ( /\ last_call'.exc = "none"
             /\ last_call'.emitted = 1
             /\ last_report' =
                  Some(TransferProgress(100 * tracker'.progress_estimation,
                                        tracker'.time_estimation,
                                        tracker'.total_bytecount,
                                        seconds(now' - Val(tracker'.start_time)),
                                        tracker'.speed, FALSE)) ) ]_vars

\* C3: no operation raises.
C3_NoOperationFails == last_call.exc = "none"

\* C5: a tick that finds the current or the evidence total zero emits nothing
\* and changes no field of the tracker but its timestamps.
C5_ZeroChangesNoEffect ==
    [][ ( /\ IsTick
          /\ last_call'.stats # None
          /\ tracker.total_stats # None
          /\ \/ Changes(Val(last_call'.stats)) = 0
             \/ Changes(Val(tracker.total_stats)) = 0 )
        => ( /\ last_call'.emitted = 0
             /\ Untimed(tracker') = Untimed(tracker) ) ]_vars

\* C6: a tick later than max(5, 2 * progress_rate) seconds after the last call
\* of annotate_written_bytes that added bytes emits exactly one stalled report
\* of the current values and leaves the statistics as they were.
C6_StallReported ==
    [][ ( /\ IsTick
          /\ globals.progress
          /\ tracker.total_stats # None
          /\ tracker.total_bytecount > 0
          /\ now' - Val(tracker.stall_last_time)
               > Max(StallSeconds, 2 * globals.progress_rate) )
        => ( /\ last_call'.emitted = 1
             /\ last_call'.exc = "none"
             /\ last_report' # None
             /\ Val(last_report').stalled
             /\ Val(last_report').percent = 100 * tracker.progress_estimation
             /\ Val(last_report').eta = tracker.time_estimation
             /\ Val(last_report').total_bytes = tracker.total_bytecount
             /\ Val(last_report').speed = tracker.speed
             /\ Statistics(tracker') = Statistics(tracker) ) ]_vars

\* C7: while the arguments of annotate_written_bytes have never decreased,
\* total_bytecount equals last_bytecount, and right after a call both equal
\* its argument.
C7_Telescoping ==
    args_sorted =>
        /\ tracker.total_bytecount = tracker.last_bytecount
        /\ last_call.name = "annotate_written_bytes"
              => tracker.last_bytecount = Val(last_call.arg)

\* a second increase of the byte count, ticks having run in between
C7_Witness ==
    /\ args_sorted
    /\ last_call.name = "annotate_written_bytes"
    /\ Val(last_call.arg) = 2
    /\ tracker.stall_last_time # None
    /\ tracker.nsteps > 0
    /\ tracker.start_time # tracker.stall_last_time

\* C8: total_bytecount never decreases, and a call of annotate_written_bytes
\* whose argument is not above last_bytecount adds nothing and leaves
\* stall_last_time alone.
C8_BytesNeverDecrease ==
    [][ /\ tracker'.total_bytecount >= tracker.total_bytecount
        /\ (IsAnnotate /\ Val(last_call'.arg) <= tracker.last_bytecount)
              => /\ tracker'.total_bytecount = tracker.total_bytecount
                 /\ tracker'.stall_last_time = tracker.stall_last_time ]_vars

\* a call with an argument below the one before it
C8_Witness ==
    /\ last_call.name = "annotate_written_bytes"
    /\ ~args_sorted
    /\ Val(last_call.arg) < tracker.total_bytecount
    /\ tracker.stall_last_time # None
    /\ Val(tracker.stall_last_time) < now

\* C9: progress_estimation is in [0, 1] in every state, and every percentage
\* reported is in [0, 100].
C9_ProgressInUnitInterval ==
    /\ tracker.progress_estimation >= 0
    /\ tracker.progress_estimation <= SCALE
    /\ last_report # None =>
          /\ Val(last_report).percent >= 0
          /\ Val(last_report).percent <= 100 * SCALE

\* a tick whose lines 159-160 computed more than 1
C9_Witness ==
    /\ last_call.name = "log_upload_progress"
    /\ last_call.raw # None
    /\ Val(last_call.raw) > SCALE
    /\ tracker.progress_estimation = SCALE

\* C10: with reporting disabled or no evidence set, a call of
\* log_upload_progress returns, emits nothing and changes no field of the
\* tracker.
C10_NoEvidenceNoOp ==
    [][ (IsTick /\ (~globals.progress \/ tracker.total_stats = None))
        => ( /\ tracker' = tracker
             /\ last_report' = last_report
             /\ last_call'.emitted = 0
             /\ last_call'.exc = "none" ) ]_vars

\* a tick with reporting enabled and no evidence, after bytes were written
C10_Witness ==
    /\ last_call.name = "log_upload_progress"
    /\ last_call.path = "gated"
    /\ globals.progress
    /\ tracker.total_stats = None
    /\ tracker.total_bytecount > 0

\* C4: once the reporter has entered its loop, the flag is set and run() has
\* ended, the last report is the final one: 100 percent, eta 0, not stalled.
C4_FinalReport ==
    (thread.stopped /\ thread.pc \in {"done", "dead"})
    => /\ last_report # None
       /\ Val(last_report).percent = 100 * SCALE
       /\ Val(last_report).eta = 0
       /\ ~Val(last_report).stalled

\* C11: a reporter whose run() found, at line 250, the run a dry run, reporting
\* disabled or no evidence collected returns at once, and from then on calls
\* log_upload_progress never and emits no report, whatever is set afterwards.
C11_StartGate ==
    [][ /\ ( /\ thread.pc = "250"
             /\ thread'.pc # "250"
             /\ (globals.dry_run \/ ~globals.progress \/ tracker.total_stats = None) )
           => (thread'.pc = "done" /\ ~thread'.running)
        /\ (thread.pc = "done" /\ ~thread.running)
           => ( /\ thread'.pc = "done"
                /\ ~thread'.running
                /\ ~IsTick
                /\ tracker'.nsteps = 0
                /\ last_report = None
                /\ last_report' = None ) ]_vars

\* run() returned at line 250 for want of evidence; the evidence was set and
\* the flag raised afterwards
C11_Witness ==
    /\ thread.pc = "done"
    /\ ~thread.running
    /\ thread.finished
    /\ ~globals.dry_run
    /\ globals.progress
    /\ tracker.total_stats # None
    /\ tracker.total_bytecount > 0
    /\ last_report = None

\* C12: nsteps grows by exactly 1 in a tick that completes the recomputation
\* and emits its report, not stalled, and no other step changes it: not a tick
\* that returns early, not a stalled tick, not annotate_written_bytes, not
\* set_evidence. (So nsteps is the number of such reports.)
C12_StepsCountReports ==
    [][ tracker'.nsteps =
          tracker.nsteps
          + ( IF /\ IsTick
                 /\ last_call'.path = "completed"
                 /\ last_call'.emitted = 1
                 /\ ~Val(last_report').stalled
              THEN 1 ELSE 0 ) ]_vars

C14_EvidenceWriteOnce ==
    [][ tracker.total_stats # None => tracker'.total_stats = tracker.total_stats ]_vars

\* C14, amended: no operation but set_evidence changes total_stats, and every
\* call of set_evidence, the first or a later one, stores its argument.
C14_EvidenceSetOnlyBySetEvidence ==
    [][ IF last_call'.name = "set_evidence"
        THEN tracker'.total_stats = last_call'.arg
        ELSE tracker'.total_stats = tracker.total_stats ]_vars

\* set_evidence called again, with other statistics, after a tick estimated
\* with the first ones
C14_Witness ==
    /\ last_call.name = "set_evidence"
    /\ Changes(Val(tracker.total_stats)) = 0
    /\ tracker.change_mean_ratio > 0

\* C15: the flag, once set, stays set; the reporter calls log_upload_progress
\* only from line 252, and with the flag set it only moves forward: from the
\* call to the sleep, from the sleep to the test of line 251, from that test
\* to the final report and from there to the end. So the test that sees the
\* flag is followed by no tick, and the flag by at most one tick and one sleep.
C15_BoundedShutdown ==
    [][ /\ thread.finished => thread'.finished
        /\ IsTick => (thread.pc = "252" /\ thread'.pc \in {"253", "dead"})
        /\ thread.finished =>
              \/ thread'.pc = thread.pc
              \/ thread.pc = "250" /\ thread'.pc \in {"251", "done"}
              \/ thread.pc = "251" /\ thread'.pc = "254"
              \/ thread.pc = "252" /\ thread'.pc \in {"253", "dead"}
              \/ thread.pc = "253" /\ thread'.pc = "251"
              \/ thread.pc = "254" /\ thread'.pc \in {"done", "dead"} ]_vars

\* the flag was set between the test of line 251 and the call of line 252,
\* and the tick ran all the same
C15_Witness ==
    /\ thread.finished
    /\ thread.stopped
    /\ thread.pc = "253"
    /\ last_call.name = "log_upload_progress"
    /\ last_call.emitted = 1

\* C17: the stored ETA is the projection of the stored (reported) progress:
\* with elapsed_sum > 0 and progress_estimation p > 0, time_estimation is
\* floor(((1 - p) / p) * elapsed_sum seconds); and a report of 100 percent
\* carries eta 0.
C17_EtaOfReportedProgress ==
    /\ (total_seconds(tracker.elapsed_sum) > 0 /\ tracker.progress_estimation > 0)
          => tracker.time_estimation =
               eta(projection(tracker.progress_estimation),
                   total_seconds(tracker.elapsed_sum))
    /\ (last_report # None /\ Val(last_report).percent = 100 * SCALE)
          => Val(last_report).eta = 0

\* C16: once some tick has updated it, change_mean_ratio is the arithmetic
\* mean of the change_ratio of the ticks that updated it (to the rounding of a
\* unit), whatever ticks that returned early, stalled or failed came in
\* between; and if those ratios were all the same c, change_mean_ratio is c
\* and change_r_estimation is 0.
C16_WelfordMean ==
    frames.samples.count > 0 =>
        /\ Abs(tracker.change_mean_ratio
                 - RDiv(frames.samples.sum, frames.samples.count)) <= 1
        /\ frames.samples.least = frames.samples.greatest
              => /\ tracker.change_mean_ratio = frames.samples.greatest
                 /\ tracker.change_r_estimation = 0

\* C18: a tick reports a stall only if, at its current_time, more than
\* max(5, 2 * progress_rate) seconds have passed since annotate_written_bytes
\* last added bytes (stall_last_time), also when annotate_written_bytes runs
\* between the lines of the tick.
C18_NoFalseStall ==
    [][ ( /\ frames.tick.pc = "117"
          /\ frames'.tick.pc = "idle"
          /\ last_call'.path = "stalled" )
        => frames.tick.current_time - Val(tracker.stall_last_time)
             > Max(StallSeconds, 2 * globals.progress_rate) ]_vars

\* C19: with the two calls running line by line, no line of
\* log_upload_progress writes total_bytecount or last_bytecount, no line of
\* annotate_written_bytes writes nsteps, the ratio statistics,
\* progress_estimation, time_estimation, elapsed_sum, speed, transfers or
\* last_total_bytecount; total_bytecount is the sum of the positive increments
\* of all the calls of annotate_written_bytes, and the bytes the ticks have
\* accounted for in rate samples (last_total_bytecount) never exceed it.
C19_SafeInterleaving ==
    [][ /\ (frames'.tick # frames.tick)
           => /\ tracker'.total_bytecount = tracker.total_bytecount
              /\ tracker'.last_bytecount = tracker.last_bytecount
        /\ (frames'.annotate # frames.annotate)
           => /\ Statistics(tracker') = Statistics(tracker)
              /\ tracker'.last_total_bytecount = tracker.last_total_bytecount
        /\ tracker'.total_bytecount = frames'.added
        /\ tracker'.last_total_bytecount <= tracker'.total_bytecount ]_vars

\* a call of annotate_written_bytes that has added bytes and not yet returned,
\* inside a tick stopped before line 117, an earlier call having stamped
\* stall_last_time after the tick read its clock
C19_Witness ==
    /\ frames.tick.pc = "117"
    /\ frames.annotate.pc = "209"
    /\ frames.annotate.changing > 0
    /\ tracker.total_bytecount = 2
    /\ tracker.nsteps > 0
    /\ Val(tracker.stall_last_time) > frames.tick.current_time

====
